---- MODULE Spec2Model ----
(***************************************************************************)
(* A model of file-scanner (main.go): wildcard pattern compilation, the    *)
(* per-line match search, and the concurrent scan pipeline (repository     *)
(* walker, one scan task per eligible file, a bounded result channel and   *)
(* a single consumer).                                                     *)
(*                                                                         *)
(* Strings are sequences of one-character strings.  Offsets into a line    *)
(* are 0-based, as in Go: the character at offset p of s is s[p + 1].      *)
(***************************************************************************)
EXTENDS Integers, Sequences, FiniteSets, Bags, TLC

\* ------------------------------------------------------------------ bounds

\* Longest line and longest query pattern drawn for the matcher.
MaxLineLen == 3
MaxPatLen == 2

\* -------------------------------------------------------------- strings

SeqsUpTo(S, n) == UNION {[1..k -> S] : k \in 0..n}

Drop(s, n) == SubSeq(s, n + 1, Len(s))

\* F applied to the value of v, with v evaluated once (TLC evaluates a LET
\* definition anew at each use when it computes ENABLED).
Once(v, F(_)) == CHOOSE r \in {F(x) : x \in {v}} : TRUE

\* s[from:to] of Go: the characters at offsets from .. to-1.
Slice(s, from, to) == SubSeq(s, from + 1, to)

\* ------------------------------------------------- pattern compilation

\* The bytes regexp.QuoteMeta escapes.
SpecialBytes == {"\\", ".", "+", "*", "?", "(", ")", "|", "[", "]", "{", "}", "^", "$"}

RECURSIVE QuoteMetaPlain(_)
\* A QuoteMeta that forgets to escape the dot.
QuoteMetaPlain(s) ==
    IF s = <<>> THEN <<>>
    ELSE (IF Head(s) \in SpecialBytes \ {"."} THEN <<"\\", Head(s)>> ELSE <<Head(s)>>)
         \o QuoteMetaPlain(Tail(s))

RECURSIVE QuoteMeta(_)
\* regexp.QuoteMeta: a backslash before every special byte.
QuoteMeta(s) ==
    IF s = <<>> THEN <<>>
    ELSE (IF Head(s) \in SpecialBytes THEN <<"\\", Head(s)>> ELSE <<Head(s)>>)
         \o QuoteMeta(Tail(s))

RECURSIVE ReplaceAllEscaped(_, _, _)
\* regexp.MustCompile(`\\\c`).ReplaceAllString(src, repl): every leftmost
\* non-overlapping occurrence of backslash-c becomes repl.
ReplaceAllEscaped(src, c, repl) ==
    IF src = <<>> THEN <<>>
    ELSE IF Len(src) >= 2 /\ src[1] = "\\" /\ src[2] = c
         THEN repl \o ReplaceAllEscaped(Drop(src, 2), c, repl)
         ELSE <<src[1]>> \o ReplaceAllEscaped(Tail(src), c, repl)

\* main.go 99-101: quote the query, then `\*` -> ".*" and `\?` -> ".".
TranslateWildcards(q) ==
    ReplaceAllEscaped(ReplaceAllEscaped(QuoteMeta(q), "*", <<".", "*">>), "?", <<".">>)

\* The first atom of the regexp text s: an escaped or a plain literal, or the
\* dot, with its postfix quantifier if one follows.
FirstAtom(s) ==
    LET esc  == s[1] = "\\" /\ Len(s) >= 2
        rest == Drop(s, IF esc THEN 2 ELSE 1)
    IN  [kind  |-> IF ~esc /\ s[1] = "." THEN "any" ELSE "lit",
         ch    |-> IF esc THEN s[2] ELSE s[1],
         quant |-> IF rest # <<>> /\ rest[1] = "*" THEN "star"
                   ELSE IF rest # <<>> /\ rest[1] = "?" THEN "opt"
                   ELSE "one"]

\* What follows the first atom of s.
AfterFirstAtom(s) ==
    LET esc == s[1] = "\\" /\ Len(s) >= 2
    IN  Drop(s, (IF esc THEN 2 ELSE 1) + (IF FirstAtom(s).quant = "one" THEN 0 ELSE 1))

RECURSIVE ParseRegexp(_)
\* regexp.MustCompile on the translated text: the sequence of its atoms.
ParseRegexp(s) ==
    IF s = <<>> THEN <<>>
    ELSE Once(AfterFirstAtom(s), LAMBDA rest : <<FirstAtom(s)>> \o ParseRegexp(rest))

\* ------------------------------------------------------- regexp matching

\* The dot matches any character but a newline; a literal matches itself.
AtomMatches(atom, c) == IF atom.kind = "any" THEN c # "\n" ELSE c = atom.ch

RECURSIVE MatchHere(_, _, _, _)
\* The end offset of the match of re[k..] at offset p that a backtracking
\* matcher finds first (Go's leftmost-first semantics, greedy quantifiers),
\* or -1.
MatchHere(re, k, s, p) ==
    IF k > Len(re) THEN p
    ELSE LET a   == re[k]
             can == p < Len(s) /\ AtomMatches(a, s[p + 1])
         IN  CASE a.quant = "one" ->
                    IF can THEN MatchHere(re, k + 1, s, p + 1) ELSE -1
               [] a.quant = "opt" ->
                    Once(IF can THEN MatchHere(re, k + 1, s, p + 1) ELSE -1,
                         LAMBDA t : IF t # -1 THEN t ELSE MatchHere(re, k + 1, s, p))
               [] a.quant = "star" ->
                    Once(IF can THEN MatchHere(re, k, s, p + 1) ELSE -1,
                         LAMBDA t : IF t # -1 THEN t ELSE MatchHere(re, k + 1, s, p))

RECURSIVE doExecute(_, _, _)
\* Regexp.doExecute from pos: <<start, end>> of the leftmost match starting
\* at or after pos, or <<>>.
doExecute(re, s, pos) ==
    IF pos > Len(s) THEN <<>>
    ELSE LET e == MatchHere(re, 1, s, pos)
         IN  IF e # -1 THEN <<pos, e>> ELSE doExecute(re, s, pos + 1)

\* An advance that resumes one character after the match's start, so that
\* overlapping candidates are found again.
AdvanceOverlapping(pos, m, end) == m[1] + 1

\* An advance that resumes at the match's end even when the match is empty.
AdvanceNoGuard(pos, m, end) == m[2]

\* Regexp.allMatches: where the search resumes after match m found from pos.
\* After an empty match it moves forward by one character (past the end when
\* none is left).
Advance(pos, m, end) ==
    IF m[2] = pos
    THEN (IF pos < end THEN pos + 1 ELSE end + 1)
    ELSE m[2]

\* The state of the allMatches loop before its first iteration.
AllMatchesInit == [pos |-> 0, i |-> 0, prevMatchEnd |-> -1, matches |-> <<>>, done |-> FALSE]

\* One iteration of the loop of Regexp.allMatches with n = len(s) + 1
\* (FindAllStringSubmatchIndex(s, -1)).
AllMatchesStep(re, s, st) ==
    LET end == Len(s)
        n   == end + 1
        Found(m) ==
            IF m = <<>> THEN [st EXCEPT !.done = TRUE]
            ELSE LET accept == ~(m[2] = st.pos /\ m[1] = st.prevMatchEnd)
                 IN  [pos          |-> Advance(st.pos, m, end),
                      i            |-> IF accept THEN st.i + 1 ELSE st.i,
                      prevMatchEnd |-> m[2],
                      matches      |-> IF accept THEN Append(st.matches, m)
                                                 ELSE st.matches,
                      done         |-> FALSE]
    IN  IF ~(st.i < n /\ st.pos <= end) THEN [st EXCEPT !.done = TRUE]
        ELSE Once(doExecute(re, s, st.pos), Found)

RECURSIVE AllMatchesFrom(_, _, _)
\* The loop run to its end from state st.
AllMatchesFrom(re, s, st) ==
    IF st.done THEN st.matches
    ELSE Once(AllMatchesStep(re, s, st), LAMBDA next : AllMatchesFrom(re, s, next))

\* pattern.FindAllStringSubmatchIndex(line, -1)
FindAllStringSubmatchIndex(re, s) == AllMatchesFrom(re, s, AllMatchesInit)

\* main.go 76-84: one MatchInfo per index pair.
MatchInfosOf(matches, originalPattern) ==
    LET ok == SelectSeq(matches, LAMBDA m : Len(m) >= 2)
    IN  [k \in 1..Len(ok) |-> [Pattern    |-> originalPattern,
                               StartIndex |-> ok[k][1],
                               EndIndex   |-> ok[k][2]]]

findMatchPositions(line, pattern, originalPattern) ==
    MatchInfosOf(FindAllStringSubmatchIndex(pattern, line), originalPattern)

RECURSIVE UnionExts(_)
UnionExts(queries) ==
    IF queries = <<>> THEN {}
    ELSE {Head(queries).Extensions[k] : k \in 1..Len(Head(queries).Extensions)}
         \cup UnionExts(Tail(queries))

\* A compilation that returns the original patterns in reverse order.
compilePatternsLabelsReversed(queries) ==
    [patterns         |-> [k \in 1..Len(queries) |->
                              ParseRegexp(TranslateWildcards(queries[k].Pattern))],
     originalPatterns |-> [k \in 1..Len(queries) |-> queries[Len(queries) + 1 - k].Pattern],
     extensions       |-> UnionExts(queries)]

\* main.go 92-114
compilePatterns(queries) ==
    [patterns         |-> [k \in 1..Len(queries) |->
                              ParseRegexp(TranslateWildcards(queries[k].Pattern))],
     originalPatterns |-> [k \in 1..Len(queries) |-> queries[k].Pattern],
     extensions       |-> UnionExts(queries)]

\* main.go 136-142
SearchResult(filePath, lineNum, line, repository, match) ==
    [FilePath   |-> filePath,
     LineNumber |-> lineNum,
     LineText   |-> line,
     Repository |-> repository,
     MatchInfo  |-> match]

\* ----------------------------------------------------------------- state

\* The matcher run on its own: one query compiled and searched in one line.
VARIABLES m_pc, m_query, m_line, m_re, m_st, m_out

mvars == <<m_pc, m_query, m_line, m_re, m_st, m_out>>

\* The pipeline.
VARIABLES
    patterns, originalPatterns, extensions,   \* what compilePatterns returned
    repoIdx,      \* how many entries of repositories the for loop has taken
    walk,         \* per repository: "pending", "skipped", "walking", "returned"
    entryIdx,     \* per repository: how many tree entries the walk has visited
    at,           \* per repository: "visit", or "go" between wg.Add and go
    w_pc,         \* the repository goroutine: "range", "close", "end"
    wg,           \* the WaitGroup counter
    resultChan,   \* the results buffered in the channel
    closed,       \* whether the channel is closed
    panicked,     \* a send on, or a close of, a closed channel
    t_pc,         \* per task: "none", "open", "scan", "send", "close", "exit", "done"
    t_off,        \* per task: the scanner's offset in the file
    t_lineNum,    \* per task: lineNum
    t_pending,    \* per task: the results of the current line still to send
    t_handle,     \* per task: whether its file handle is open
    results,      \* what the consumer collected
    c_pc,         \* the consumer: "recv", "done"
    sent,         \* history: every result sent, in the order of the sends
    nClose        \* history: how many times the channel was closed

pvars == <<patterns, originalPatterns, extensions, repoIdx, walk, entryIdx, at, w_pc,
           wg, resultChan, closed, panicked, t_pc, t_off, t_lineNum, t_pending,
           t_handle, results, c_pc, sent, nClose>>

compiledVars == <<patterns, originalPatterns, extensions>>
walkerVars == <<repoIdx, walk, entryIdx, at, w_pc>>
taskVars == <<t_pc, t_off, t_lineNum, t_pending, t_handle>>
chanVars == <<resultChan, closed, sent, nClose>>
consumerVars == <<results, c_pc>>

vars == <<pvars, mvars>>

\* ------------------------------------------------- the matcher, stepwise

PatternChars == {"a", "b", "*", "?", "."}
LineChars == {"a", "b", "."}

ExamplePatterns ==
    { <<"a", "*", "b">>, <<"a", "?", "b">>, <<"\\", "*">>, <<"*", "*", "*">> }

ExampleLines ==
    { <<"a", "b", "a", "b", "a", "b">>, <<"a", "X", "Y", "Z", "b">>,
      <<"a", "x", "b">>, <<"a", "x", "x", "b">>, <<"\\", "a", "*">> }

PatternInputs == SeqsUpTo(PatternChars, MaxPatLen) \cup ExamplePatterns
LineInputs == SeqsUpTo(LineChars, MaxLineLen) \cup ExampleLines

MatchInit ==
    /\ m_pc = "input"
    /\ m_query = <<>>
    /\ m_line = <<>>
    /\ m_re = <<>>
    /\ m_st = AllMatchesInit
    /\ m_out = <<>>

\* The query read from the queries file and a line read from a file.
MInput ==
    /\ m_pc = "input"
    /\ m_query' \in PatternInputs
    /\ m_line' \in LineInputs
    /\ m_pc' = "compile"
    /\ UNCHANGED <<pvars, m_re, m_st, m_out>>

\* compilePatterns on the one query.
MCompile ==
    /\ m_pc = "compile"
    /\ m_re' = compilePatterns(<<[Pattern |-> m_query, Extensions |-> <<>>]>>).patterns[1]
    /\ m_pc' = "find"
    /\ UNCHANGED <<pvars, m_query, m_line, m_st, m_out>>

\* One iteration of the search loop.
MFindStep ==
    /\ m_pc = "find"
    /\ ~m_st.done
    /\ m_st' = AllMatchesStep(m_re, m_line, m_st)
    /\ UNCHANGED <<pvars, m_pc, m_query, m_line, m_re, m_out>>

\* findMatchPositions returns and scanFile wraps each match in a result.
MEmit ==
    /\ m_pc = "find"
    /\ m_st.done
    /\ m_out' = LET ms == MatchInfosOf(m_st.matches, m_query)
                IN  [k \in 1..Len(ms) |-> SearchResult(<<"f">>, 1, m_line, <<"r">>, ms[k])]
    /\ m_pc' = "done"
    /\ UNCHANGED <<pvars, m_query, m_line, m_re, m_st>>

MatchNext == MInput \/ MCompile \/ MFindStep \/ MEmit

\* ------------------------------------------------------ the file system

\* The capacity of the result channel (10000 in main.go) and the largest
\* line the scanner buffers (10MB in main.go), scaled down.
ChanCap == 2
MaxScanTokenSize == 5

ReposDir == <<"r", "e", "p", "o", "s">>

\* filepath.Join(dir, name)
Join(dir, name) == dir \o <<"/">> \o name

RECURSIVE ExtFrom(_, _)
ExtFrom(path, i) ==
    IF i < 1 \/ path[i] = "/" THEN <<>>
    ELSE IF path[i] = "." THEN SubSeq(path, i, Len(path))
    ELSE ExtFrom(path, i - 1)

\* filepath.Ext(path): the suffix of the last element of path from its last
\* dot on, empty when it has none.
Ext(path) == ExtFrom(path, Len(path))

\* The queries file.
Queries ==
    << [Pattern |-> <<"a", "b">>, Extensions |-> << <<".", "t", "s">> >>],
       [Pattern |-> <<"x", "?">>, Extensions |-> << <<".", "g", "o">> >>] >>

Dir(path) == [Path |-> path, IsDir |-> TRUE, Err |-> FALSE, Openable |-> TRUE, Content |-> <<>>]

File(path, content) ==
    [Path |-> path, IsDir |-> FALSE, Err |-> FALSE, Openable |-> TRUE, Content |-> content]

\* A line of exactly MaxScanTokenSize characters, which holds a match.
LongLine == <<"a", "b">> \o [i \in 1..(MaxScanTokenSize - 2) |-> "x"]

R1 == Join(ReposDir, <<"r", "1">>)
R2 == Join(ReposDir, <<"r", "2">>)

\* What os.ReadDir("repos") lists, sorted by name; Tree is what filepath.Walk
\* passes to the callback for the repository, in its (lexical) order.  Err
\* marks an entry whose lstat fails (the callback gets err != nil), Openable
\* a file os.Open can open.
Repositories ==
    << [Name |-> <<"a", ".", "t", "s">>, IsDir |-> FALSE, Tree |-> <<>>],
       [Name |-> <<"r", "1">>, IsDir |-> TRUE, Tree |->
          << Dir(R1),
             Dir(Join(R1, <<"d", ".", "t", "s">>)),
             File(Join(R1, <<"f", "o", "o", ".", "T", "S">>), <<"a", "b">>),
             File(Join(R1, <<"x", ".", "t", "s">>),
                  <<"a", "b", "x", "c", "\n", "\n", "a", "b", "a", "b">>) >>],
       [Name |-> <<"r", "2">>, IsDir |-> TRUE, Tree |->
          << Dir(R2),
             File(Join(R2, <<"e", ".", "t", "s">>), <<>>),
             [File(Join(R2, <<"k", ".", "t", "s">>), <<"a", "b">>) EXCEPT !.Err = TRUE],
             [File(Join(R2, <<"n", ".", "t", "s">>), <<"a", "b">>) EXCEPT !.Openable = FALSE],
             File(Join(R2, <<"y", ".", "g", "o">>),
                  <<"x", "a", "b", "\r", "\n">> \o LongLine \o <<"\n", "a", "b">>) >>] >>

RepoIds == 1..Len(Repositories)

Tree(r) == Repositories[r].Tree

\* One possible scan task per entry of a repository's tree.
TaskIds == UNION {{<<r, e>> : e \in 1..Len(Tree(r))} : r \in RepoIds}

EntryOf(t) == Tree(t[1])[t[2]]

\* ------------------------------------------------------------- scanning

\* A scanner without a limit on the length of a line.
ScanLinesUnbounded(data, off) ==
    LET nls == {i \in (off + 1)..Len(data) : data[i] = "\n"}
        to  == IF nls = {} THEN Len(data) + 1
               ELSE CHOOSE i \in nls : \A j \in nls : i <= j
        raw == SubSeq(data, off + 1, to - 1)
    IN  IF off >= Len(data) THEN [kind |-> "eof", text |-> <<>>, next |-> off]
        ELSE [kind |-> "token",
              text |-> IF raw # <<>> /\ raw[Len(raw)] = "\r"
                       THEN SubSeq(raw, 1, Len(raw) - 1) ELSE raw,
              next |-> IF to > Len(data) THEN Len(data) ELSE to]

\* bufio.ScanLines with dropCR on the data from offset off, under the buffer
\* limit: the next line without its terminator, the end of the data, or a
\* line that does not fit the buffer (Scanner.Scan gives ErrTooLong).
ScanLines(data, off) ==
    LET nls == {i \in (off + 1)..Len(data) : data[i] = "\n"}
        to  == IF nls = {} THEN Len(data) + 1
               ELSE CHOOSE i \in nls : \A j \in nls : i <= j
        raw == SubSeq(data, off + 1, to - 1)
    IN  IF off >= Len(data) THEN [kind |-> "eof", text |-> <<>>, next |-> off]
        ELSE IF Len(raw) >= MaxScanTokenSize
             THEN [kind |-> "toolong", text |-> <<>>, next |-> off]
        ELSE [kind |-> "token",
              text |-> IF raw # <<>> /\ raw[Len(raw)] = "\r"
                       THEN SubSeq(raw, 1, Len(raw) - 1) ELSE raw,
              next |-> IF to > Len(data) THEN Len(data) ELSE to]

RECURSIVE LineResultsFirstOnly(_, _, _, _, _, _, _)
\* A scan of a line that reports only the first match of each pattern.
LineResultsFirstOnly(filePath, lineNum, line, repository, pats, origs, i) ==
    IF i > Len(pats) THEN <<>>
    ELSE LET matches == findMatchPositions(line, pats[i], origs[i])
         IN  [k \in 1..(IF matches = <<>> THEN 0 ELSE 1) |->
                 SearchResult(filePath, lineNum, line, repository, matches[k])]
             \o LineResultsFirstOnly(filePath, lineNum, line, repository, pats, origs, i + 1)

RECURSIVE LineResultsOwnExtensions(_, _, _, _, _, _, _)
\* A scan that tries a pattern only on files with an extension of the
\* pattern's own query.
LineResultsOwnExtensions(filePath, lineNum, line, repository, pats, origs, i) ==
    IF i > Len(pats) THEN <<>>
    ELSE LET matches == IF \E j \in 1..Len(Queries[i].Extensions) :
                               Queries[i].Extensions[j] = Ext(filePath)
                        THEN findMatchPositions(line, pats[i], origs[i])
                        ELSE <<>>
         IN  [k \in 1..Len(matches) |->
                 SearchResult(filePath, lineNum, line, repository, matches[k])]
             \o LineResultsOwnExtensions(filePath, lineNum, line, repository, pats, origs, i + 1)

RECURSIVE LineResults(_, _, _, _, _, _, _)
\* main.go 133-144: the results scanFile sends for one line, for the patterns
\* from the i-th on, in the order it sends them.
LineResults(filePath, lineNum, line, repository, pats, origs, i) ==
    IF i > Len(pats) THEN <<>>
    ELSE LET matches == findMatchPositions(line, pats[i], origs[i])
         IN  [k \in 1..Len(matches) |->
                 SearchResult(filePath, lineNum, line, repository, matches[k])]
             \o LineResults(filePath, lineNum, line, repository, pats, origs, i + 1)

\* ----------------------------------------------------------- the pipeline

\* main.go 244-256: the patterns compiled, the channel and the WaitGroup made.
PipeInit ==
    /\ patterns = compilePatterns(Queries).patterns
    /\ originalPatterns = compilePatterns(Queries).originalPatterns
    /\ extensions = compilePatterns(Queries).extensions
    /\ repoIdx = 0
    /\ walk = [r \in RepoIds |-> "pending"]
    /\ entryIdx = [r \in RepoIds |-> 0]
    /\ at = [r \in RepoIds |-> "visit"]
    /\ w_pc = "range"
    /\ wg = 0
    /\ resultChan = <<>>
    /\ closed = FALSE
    /\ panicked = FALSE
    /\ t_pc = [t \in TaskIds |-> "none"]
    /\ t_off = [t \in TaskIds |-> 0]
    /\ t_lineNum = [t \in TaskIds |-> 0]
    /\ t_pending = [t \in TaskIds |-> <<>>]
    /\ t_handle = [t \in TaskIds |-> FALSE]
    /\ results = <<>>
    /\ c_pc = "recv"
    /\ sent = <<>>
    /\ nClose = 0

\* A loop that launches each walk without waiting for it to return.
WalkCallDetached(w) == TRUE

\* main.go 264: walkRepository is called, not launched: the loop goes on (to
\* the next repository or to wg.Wait) only when the call has returned.
WalkCallReturned(w) == \A r \in DOMAIN w : w[r] # "walking"

\* main.go 260-266: the loop takes the next entry of repositories and, if it
\* is a directory, calls walkRepository on it.
RangeRepositories ==
    /\ ~panicked
    /\ w_pc = "range"
    /\ repoIdx < Len(Repositories)
    /\ WalkCallReturned(walk)
    /\ repoIdx' = repoIdx + 1
    /\ walk' = [walk EXCEPT ![repoIdx + 1] =
                   IF Repositories[repoIdx + 1].IsDir THEN "walking" ELSE "skipped"]
    /\ UNCHANGED <<mvars, compiledVars, entryIdx, at, w_pc, wg, chanVars, panicked, taskVars,
                   consumerVars>>

\* A callback that compares extensions without regard to case of "TS".
SchedulesAnyCase(entry, exts) ==
    /\ ~entry.Err
    /\ ~entry.IsDir
    /\ \/ Ext(entry.Path) \in exts
       \/ Ext(entry.Path) = <<".", "T", "S">> /\ <<".", "t", "s">> \in exts

\* main.go 160-164: whether the callback schedules a scan of the entry.
Schedules(entry, exts) == ~entry.Err /\ ~entry.IsDir /\ Ext(entry.Path) \in exts

\* A callback that runs scanFile itself: the walk goes on when the scans it
\* started in repository r are over.
GoJoins(tp, r) == \A t \in DOMAIN tp : t[1] = r => tp[t] \in {"none", "done"}

\* main.go 166: a go statement returns without waiting for the function it
\* starts, whatever the tasks of repository r are doing.
GoReturns(tp, r) == TRUE

\* A callback that starts the task without telling the WaitGroup.
WgAddForgotten(n) == n

\* main.go 165: wg.Add(1)
WgAdd(n) == n + 1

\* main.go 159-171: the callback on the next entry of repository r; for an
\* entry to scan it does wg.Add(1) and is then about to launch the task.
WalkFn(r) ==
    /\ ~panicked
    /\ walk[r] = "walking"
    /\ at[r] = "visit"
    /\ GoReturns(t_pc, r)
    /\ entryIdx[r] < Len(Tree(r))
    /\ IF Schedules(Tree(r)[entryIdx[r] + 1], extensions)
       THEN /\ wg' = WgAdd(wg)
            /\ at' = [at EXCEPT ![r] = "go"]
            /\ UNCHANGED entryIdx
       ELSE /\ entryIdx' = [entryIdx EXCEPT ![r] = @ + 1]
            /\ UNCHANGED <<wg, at>>
    /\ UNCHANGED <<mvars, compiledVars, repoIdx, walk, w_pc, chanVars, panicked, taskVars,
                   consumerVars>>

\* main.go 166-169: the go statement; the callback returns nil.
WalkGo(r) ==
    /\ ~panicked
    /\ walk[r] = "walking"
    /\ at[r] = "go"
    /\ t_pc' = [t_pc EXCEPT ![<<r, entryIdx[r] + 1>>] = "open"]
    /\ entryIdx' = [entryIdx EXCEPT ![r] = @ + 1]
    /\ at' = [at EXCEPT ![r] = "visit"]
    /\ UNCHANGED <<mvars, compiledVars, repoIdx, walk, w_pc, wg, chanVars, panicked, t_off,
                   t_lineNum, t_pending, t_handle, consumerVars>>

\* filepath.Walk has visited every entry: walkRepository returns.
WalkReturn(r) ==
    /\ ~panicked
    /\ walk[r] = "walking"
    /\ at[r] = "visit"
    /\ GoReturns(t_pc, r)
    /\ entryIdx[r] = Len(Tree(r))
    /\ walk' = [walk EXCEPT ![r] = "returned"]
    /\ UNCHANGED <<mvars, compiledVars, repoIdx, entryIdx, at, w_pc, wg, chanVars, panicked,
                   taskVars, consumerVars>>

\* A Wait that returns whatever the counter is.
WgWaitIgnores(n) == TRUE

\* sync.WaitGroup.Wait returns when the counter is zero.
WgWaitReturns(n) == n = 0

\* main.go 267: after the loop, wg.Wait().
WgWait ==
    /\ ~panicked
    /\ w_pc = "range"
    /\ repoIdx = Len(Repositories)
    /\ WalkCallReturned(walk)
    /\ WgWaitReturns(wg)
    /\ w_pc' = "close"
    /\ UNCHANGED <<mvars, compiledVars, repoIdx, walk, entryIdx, at, wg, chanVars, panicked,
                   taskVars, consumerVars>>

\* main.go 268: close(resultChan); closing a closed channel panics.
Close ==
    /\ ~panicked
    /\ w_pc = "close"
    /\ w_pc' = "end"
    /\ closed' = TRUE
    /\ panicked' = closed
    /\ nClose' = nClose + 1
    /\ UNCHANGED <<mvars, compiledVars, repoIdx, walk, entryIdx, at, wg, resultChan, sent,
                   taskVars, consumerVars>>

\* An open that succeeds on every file.
OpenNeverFails(entry) == FALSE

\* main.go 119: whether os.Open returns an error for the entry.
OpenFails(entry) == ~entry.Openable

\* main.go 119-123: os.Open; on an error scanFile returns at once.
TaskOpen(t) ==
    /\ ~panicked
    /\ t_pc[t] = "open"
    /\ IF OpenFails(EntryOf(t))
       THEN /\ t_pc' = [t_pc EXCEPT ![t] = "exit"]
            /\ UNCHANGED t_handle
       ELSE /\ t_handle' = [t_handle EXCEPT ![t] = TRUE]
            /\ t_pc' = [t_pc EXCEPT ![t] = "scan"]
    /\ UNCHANGED <<mvars, compiledVars, walkerVars, wg, chanVars, panicked, t_off, t_lineNum,
                   t_pending, consumerVars>>

\* main.go 130: lineNum++
LineNumNext(n) == n + 1

\* main.go 129-135: scanner.Scan(); on a line, lineNum++ and the matches of
\* every pattern in it; at the end of the file or on a line too long for the
\* buffer the loop ends.
TaskScan(t) ==
    /\ ~panicked
    /\ t_pc[t] = "scan"
    /\ LET tok == ScanLines(EntryOf(t).Content, t_off[t])
       IN  IF tok.kind = "token"
           THEN LET rs == LineResults(EntryOf(t).Path, LineNumNext(t_lineNum[t]), tok.text,
                                      Repositories[t[1]].Name, patterns, originalPatterns, 1)
                IN  /\ t_off' = [t_off EXCEPT ![t] = tok.next]
                    /\ t_lineNum' = [t_lineNum EXCEPT ![t] = LineNumNext(@)]
                    /\ t_pending' = [t_pending EXCEPT ![t] = rs]
                    /\ t_pc' = [t_pc EXCEPT ![t] = IF rs = <<>> THEN "scan" ELSE "send"]
           ELSE /\ t_pc' = [t_pc EXCEPT ![t] = "close"]
                /\ UNCHANGED <<t_off, t_lineNum, t_pending>>
    /\ UNCHANGED <<mvars, compiledVars, walkerVars, wg, chanVars, panicked, t_handle,
                   consumerVars>>

\* A channel on which a send never finds room.
ChanNeverHasRoom(ch) == FALSE

\* A channel that takes a send whatever it holds.
ChanHasRoomAlways(ch) == TRUE

\* A send proceeds when the buffer has room.
ChanHasRoom(ch) == Len(ch) < ChanCap

\* A channel that hands out the latest result first.
ChanSendFront(ch, r) == <<r>> \o ch

\* The buffer after a send.
ChanSend(ch, r) == Append(ch, r)

\* main.go 136-142: resultChan <- result, for the next match of the line; it
\* blocks while the channel is full and panics on a closed channel.
TaskSend(t) ==
    /\ ~panicked
    /\ t_pc[t] = "send"
    /\ IF closed
       THEN /\ panicked' = TRUE
            /\ UNCHANGED <<resultChan, sent, t_pending, t_pc>>
       ELSE /\ ChanHasRoom(resultChan)
            /\ resultChan' = ChanSend(resultChan, Head(t_pending[t]))
            /\ sent' = Append(sent, Head(t_pending[t]))
            /\ t_pending' = [t_pending EXCEPT ![t] = Tail(@)]
            /\ t_pc' = [t_pc EXCEPT ![t] = IF Tail(t_pending[t]) = <<>> THEN "scan" ELSE "send"]
            /\ UNCHANGED panicked
    /\ UNCHANGED <<mvars, compiledVars, walkerVars, wg, closed, nClose, t_off, t_lineNum,
                   t_handle, consumerVars>>

\* A return from scanFile that leaves the file open.
FileCloseForgotten(open) == open

\* file.Close(): the handle is no longer open.
FileClose(open) == FALSE

\* main.go 123: the deferred file.Close() as scanFile returns.
TaskClose(t) ==
    /\ ~panicked
    /\ t_pc[t] = "close"
    /\ t_handle' = [t_handle EXCEPT ![t] = FileClose(@)]
    /\ t_pc' = [t_pc EXCEPT ![t] = "exit"]
    /\ UNCHANGED <<mvars, compiledVars, walkerVars, wg, chanVars, panicked, t_off, t_lineNum,
                   t_pending, consumerVars>>

\* sync.WaitGroup.Done
WgDone(n) == n - 1

\* main.go 167: the deferred wg.Done() as the task's function returns.
TaskDone(t) ==
    /\ ~panicked
    /\ t_pc[t] = "exit"
    /\ wg' = WgDone(wg)
    /\ t_pc' = [t_pc EXCEPT ![t] = "done"]
    /\ UNCHANGED <<mvars, compiledVars, walkerVars, chanVars, panicked, t_off, t_lineNum,
                   t_pending, t_handle, consumerVars>>

\* main.go 273-275: the consumer receives a result and appends it.
Recv ==
    /\ ~panicked
    /\ c_pc = "recv"
    /\ resultChan # <<>>
    /\ results' = Append(results, Head(resultChan))
    /\ resultChan' = Tail(resultChan)
    /\ UNCHANGED <<mvars, compiledVars, walkerVars, wg, closed, sent, nClose, panicked, taskVars,
                   c_pc>>

\* A drain loop that ends as soon as it finds the channel empty.
DrainEndsWhenEmpty(ch, isClosed) == ch = <<>>

\* The range over the channel ends when it is closed and drained.
DrainEnds(ch, isClosed) == ch = <<>> /\ isClosed

\* main.go 273: the range loop ends.
RecvClosed ==
    /\ ~panicked
    /\ c_pc = "recv"
    /\ DrainEnds(resultChan, closed)
    /\ c_pc' = "done"
    /\ UNCHANGED <<mvars, compiledVars, walkerVars, wg, chanVars, panicked, taskVars, results>>

Walker == RangeRepositories \/ WgWait \/ Close \/ \E r \in RepoIds : WalkFn(r) \/ WalkGo(r) \/ WalkReturn(r)

Task(t) == TaskOpen(t) \/ TaskScan(t) \/ TaskSend(t) \/ TaskClose(t) \/ TaskDone(t)

Consumer == Recv \/ RecvClosed

Init == PipeInit /\ MatchInit

Next == Walker \/ Consumer \/ \E t \in TaskIds : Task(t)

Spec == Init /\ [][Next]_vars

\* The Go scheduler keeps running goroutines while one is runnable.
Fairness == WF_vars(Next)

SpecFair == Spec /\ Fairness

SpecMatch == Init /\ [][MatchNext]_vars

\* ------------------------------------------------- matcher: properties

Spans(rs) ==
    [k \in 1..Len(rs) |-> <<rs[k].MatchInfo.StartIndex, rs[k].MatchInfo.EndIndex>>]

IsLiteral(p) == \A k \in 1..Len(p) : p[k] \notin {"*", "?"}

RECURSIVE GlobMatch(_, _)
\* Whether the wildcard pattern pat matches the whole of s: '*' stands for
\* zero or more characters, '?' for exactly one, anything else for itself.
GlobMatch(pat, s) ==
    IF pat = <<>> THEN s = <<>>
    ELSE IF Head(pat) = "*"
         THEN GlobMatch(Tail(pat), s) \/ (s # <<>> /\ GlobMatch(pat, Tail(s)))
    ELSE IF Head(pat) = "?"
         THEN s # <<>> /\ GlobMatch(Tail(pat), Tail(s))
    ELSE s # <<>> /\ Head(s) = Head(pat) /\ GlobMatch(Tail(pat), Tail(s))

RECURSIVE LiteralOccurrences(_, _, _)
\* The occurrences of the literal P in L from offset pos on, left to right,
\* the search resuming at the end of the previous occurrence (one character
\* further after an empty one).
LiteralOccurrences(P, L, pos) ==
    LET starts == {s \in pos..(Len(L) - Len(P)) : Slice(L, s, s + Len(P)) = P}
    IN  IF starts = {} THEN <<>>
        ELSE LET s == CHOOSE x \in starts : \A y \in starts : x <= y
             IN  <<<<s, s + Len(P)>>>>
                 \o LiteralOccurrences(P, L, IF Len(P) = 0 THEN s + 1 ELSE s + Len(P))

\* C5: every emitted result satisfies 0 <= startIndex < endIndex <= len(lineText),
\* whatever the pattern (the empty one, one made of '*' only) and the line.
C5_SpanNonEmptyWithinLine ==
    \A k \in 1..Len(m_out) :
        /\ 0 <= m_out[k].MatchInfo.StartIndex
        /\ m_out[k].MatchInfo.StartIndex < m_out[k].MatchInfo.EndIndex
        /\ m_out[k].MatchInfo.EndIndex <= Len(m_out[k].LineText)

\* C6: for a literal pattern P the returned spans are exactly the
\* non-overlapping occurrences of P in the line, left to right, each
\* [start, start + len(P)); "ab" on "ababab" gives (0,2), (2,4), (4,6).
C6_LiteralOccurrences ==
    m_pc = "done" =>
        /\ IsLiteral(m_query) => Spans(m_out) = LiteralOccurrences(m_query, m_line, 0)
        /\ (m_query = <<"a", "b">> /\ m_line = <<"a", "b", "a", "b", "a", "b">>)
              => Spans(m_out) = << <<0, 2>>, <<2, 4>>, <<4, 6>> >>

\* C6 witness: three touching occurrences, all reported.
C6_Witness ==
    /\ m_pc = "done"
    /\ m_query = <<"a", "b">>
    /\ m_line = <<"a", "b", "a", "b", "a", "b">>
    /\ Len(m_out) = 3

\* C7: '*' is zero or more of any character, '?' exactly one, every other
\* character (regexp metacharacters too) a literal: every reported span is a
\* substring the wildcard pattern matches, and a span is reported whenever
\* some substring matches; "a*b" covers the whole of "aXYZb", "a?b" matches
\* "axb" and nothing in "axxb".
C7_WildcardTranslation ==
    m_pc = "done" =>
        /\ \A k \in 1..Len(m_out) :
              GlobMatch(m_query, Slice(m_line, m_out[k].MatchInfo.StartIndex,
                                               m_out[k].MatchInfo.EndIndex))
        /\ (m_out = <<>>) <=>
              ~ \E s \in 0..Len(m_line) : \E e \in s..Len(m_line) :
                    GlobMatch(m_query, Slice(m_line, s, e))
        /\ (m_query = <<"a", "*", "b">> /\ m_line = <<"a", "X", "Y", "Z", "b">>)
              => Spans(m_out) = << <<0, 5>> >>
        /\ (m_query = <<"a", "?", "b">> /\ m_line = <<"a", "x", "b">>)
              => Spans(m_out) = << <<0, 3>> >>
        /\ (m_query = <<"a", "?", "b">> /\ m_line = <<"a", "x", "x", "b">>)
              => m_out = <<>>

\* C7 witness: "a*b" has matched in "aXYZb".
C7_Witness ==
    /\ m_pc = "done"
    /\ m_query = <<"a", "*", "b">>
    /\ m_line = <<"a", "X", "Y", "Z", "b">>
    /\ Len(m_out) = 1

\* C8: the search terminates for every pattern and line: every iteration of
\* the loop resumes strictly further right (at least one character after a
\* zero-width match) and never beyond one past the end of the line, so the
\* iterations are at most len(line) + 2; the spans found are finitely many
\* and their starts strictly increase.
C8_ForwardProgress ==
    [][m_pc = "find" =>
          /\ ~m_st'.done => (m_st'.pos > m_st.pos /\ m_st'.pos <= Len(m_line) + 1)
          /\ Len(m_st'.matches) <= Len(m_line) + 1
          /\ \A k \in 1..(Len(m_st'.matches) - 1) :
                m_st'.matches[k][1] < m_st'.matches[k + 1][1]
          /\ \A k \in 1..(Len(m_out') - 1) :
                m_out'[k].MatchInfo.StartIndex < m_out'[k + 1].MatchInfo.StartIndex]_mvars

\* C8 witness: zero-width matches at every offset of a three-character line.
C8_Witness ==
    /\ m_pc = "done"
    /\ m_query = <<>>
    /\ Len(m_line) = 3
    /\ Spans(m_out) = << <<0, 0>>, <<1, 1>>, <<2, 2>>, <<3, 3>> >>

\* ------------------------------------------------ pipeline: properties

Count(seq, x) == Cardinality({i \in DOMAIN seq : seq[i] = x})

\* The multiset of the elements of a sequence.
BagOfSeq(seq) == [x \in {seq[i] : i \in DOMAIN seq} |-> Count(seq, x)]

\* The results task t has sent so far.
SentBy(t) == SelectSeq(sent, LAMBDA r : r.FilePath = EntryOf(t).Path)

Terminated ==
    /\ w_pc = "end"
    /\ c_pc = "done"
    /\ \A t \in TaskIds : t_pc[t] \in {"none", "done"}

\* C1: the channel is closed only after every scan task of every repository
\* has terminated (no walk is left to spawn one and none is running); no
\* task sends on a closed channel; the channel is closed at most once.
C1_CloseAfterAllTasks ==
    /\ (closed \/ w_pc \in {"close", "end"}) =>
          /\ repoIdx = Len(Repositories)
          /\ \A r \in RepoIds : walk[r] \in {"skipped", "returned"}
          /\ \A t \in TaskIds : t_pc[t] \in {"none", "done"}
          /\ \A t \in TaskIds :
                (~EntryOf(t).Err /\ ~EntryOf(t).IsDir /\ Ext(EntryOf(t).Path) \in extensions)
                    => t_pc[t] = "done"
    /\ ~panicked
    /\ nClose <= 1
    /\ closed <=> nClose = 1

\* C1 witness: the channel closed after the four scan tasks have ended.
C1_Witness ==
    /\ closed
    /\ Cardinality({t \in TaskIds : t_pc[t] = "done"}) = 4

\* C2: no result is lost or duplicated: what the consumer has collected and
\* what the channel buffers are, as a multiset, exactly what the tasks have
\* sent, and when the drain loop has ended the collection alone is.
C2_NoLossNoDuplicate ==
    /\ BagOfSeq(results \o resultChan) = BagOfSeq(sent)
    /\ c_pc = "done" => BagOfSeq(results) = BagOfSeq(sent)

\* C2 witness: the drain loop has ended with more results than the channel
\* holds, after every task has ended.
C2_Witness ==
    /\ c_pc = "done"
    /\ Len(results) > ChanCap
    /\ Len(sent) = 6

\* C3: under fair scheduling the run terminates: every task finishes, the
\* channel is closed and the drain loop ends, once and only after all the
\* producers have finished; no state short of that is a deadlock.
C3_Terminates ==
    /\ <>(Terminated /\ closed)
    /\ [](Terminated \/ ENABLED Next)
    /\ [](c_pc = "done" => (closed /\ \A t \in TaskIds : t_pc[t] \in {"none", "done"}))
    /\ [][c_pc = "done" => c_pc' = "done"]_vars

\* C3 witness: two producers blocked on the full channel.
C3_Witness ==
    /\ Len(resultChan) = ChanCap
    /\ Cardinality({t \in TaskIds : t_pc[t] = "send"}) = 2

\* C4 as stated: the walk of a repository can start while the walk of another
\* is in progress: with a walk in progress and a repository yet to take, the
\* loop can take it.
C4_WalkStartsDuringWalk ==
    (/\ \E r \in RepoIds : walk[r] = "walking"
     /\ repoIdx < Len(Repositories)) => ENABLED RangeRepositories

\* C4 amended: the walks run one after another in the one repository
\* goroutine: at most one is in progress, and one starts only when those of
\* all the repositories before it have returned.
C4_WalksOneAfterAnother ==
    /\ Cardinality({r \in RepoIds : walk[r] = "walking"}) <= 1
    /\ \A r \in RepoIds : walk[r] \in {"walking", "returned"} =>
          \A q \in 1..(r - 1) : walk[q] \in {"skipped", "returned"}

\* C4 witness: the second repository is being walked while a scan task of
\* the first is still running.
C4_Witness ==
    /\ walk[3] = "walking"
    /\ \E t \in TaskIds : t[1] = 2 /\ t_pc[t] \notin {"none", "done"}

Visited(t) == entryIdx[t[1]] >= t[2]

\* C9 as stated: an entry gets a scan task if and only if it is not a
\* directory and its extension is in the extension set.
C9_TaskIffFileWithExtension ==
    \A t \in TaskIds : Visited(t) =>
        (t_pc[t] # "none" <=> (~EntryOf(t).IsDir /\ Ext(EntryOf(t).Path) \in extensions))

\* C9 amended: an entry gets a scan task if and only if the walk reports no
\* error for it, it is not a directory and its extension is, compared
\* exactly, in the extension set; any other entry (a directory, foo.TS
\* against .ts) never gets one and no result bears its path.
C9_TaskIffNoErrFileWithExtension ==
    /\ \A t \in TaskIds : Visited(t) =>
          (t_pc[t] # "none" <=>
              (~EntryOf(t).Err /\ ~EntryOf(t).IsDir /\ Ext(EntryOf(t).Path) \in extensions))
    /\ \A t \in TaskIds :
          (EntryOf(t).Err \/ EntryOf(t).IsDir \/ Ext(EntryOf(t).Path) \notin extensions)
              => (t_pc[t] = "none" /\ SentBy(t) = <<>>)
    /\ \A t \in TaskIds :
          EntryOf(t).Path \in {Join(R1, <<"f", "o", "o", ".", "T", "S">>),
                               Join(R1, <<"d", ".", "t", "s">>)} => t_pc[t] = "none"

\* C9 witness: both walks over; foo.TS and the directory d.ts have no task,
\* x.ts has one.
C9_Witness ==
    /\ \A r \in RepoIds : walk[r] \in {"skipped", "returned"}
    /\ t_pc[<<2, 2>>] = "none"
    /\ t_pc[<<2, 3>>] = "none"
    /\ t_pc[<<2, 4>>] # "none"

RECURSIVE SplitLines(_)
\* The lines of a file's content: the runs between newlines (a final
\* newline ends the last line, it starts no empty one).
SplitLines(data) ==
    IF data = <<>> THEN <<>>
    ELSE LET nls == {i \in 1..Len(data) : data[i] = "\n"}
         IN  IF nls = {} THEN <<data>>
             ELSE LET nl == CHOOSE i \in nls : \A j \in nls : i <= j
                  IN  <<SubSeq(data, 1, nl - 1)>> \o SplitLines(SubSeq(data, nl + 1, Len(data)))

DropCR(line) ==
    IF line # <<>> /\ line[Len(line)] = "\r" THEN SubSeq(line, 1, Len(line) - 1) ELSE line

\* The lines of task t's file that a scan gets to read: none if the file
\* does not open, otherwise those before the first line too long to buffer.
ReadableLines(t) ==
    LET ls   == SplitLines(EntryOf(t).Content)
        long == {k \in 1..Len(ls) : Len(ls[k]) >= MaxScanTokenSize}
        n    == IF ~EntryOf(t).Openable THEN 0
                ELSE IF long = {} THEN Len(ls)
                ELSE (CHOOSE k \in long : \A j \in long : k <= j) - 1
    IN  [k \in 1..n |-> DropCR(ls[k])]

\* The match spans of all the patterns in a line.
SpansIn(line) ==
    UNION {{<<i, m>> : m \in {findMatchPositions(line, patterns[i], originalPatterns[i])[k] :
                               k \in 1..Len(findMatchPositions(line, patterns[i],
                                                               originalPatterns[i]))}} :
           i \in 1..Len(patterns)}

\* C10: a scan task emits exactly one result per match occurrence and
\* nothing else: for each line read so far, as many results as the line has
\* match spans over all the patterns, each carrying the file's path, the
\* repository's name, the line's text and its 1-based number; a finished
\* task has read all its readable lines; a line without a match and an
\* empty file give no result.
C10_OneResultPerMatch ==
    \A t \in TaskIds :
        LET rs    == SentBy(t) \o t_pending[t]
            lines == ReadableLines(t)
        IN  /\ t_lineNum[t] <= Len(lines)
            /\ t_pc[t] = "done" => (t_lineNum[t] = Len(lines) /\ t_pending[t] = <<>>)
            /\ \A k \in 1..Len(rs) :
                  /\ rs[k].FilePath = EntryOf(t).Path
                  /\ rs[k].Repository = Repositories[t[1]].Name
                  /\ rs[k].LineNumber \in 1..t_lineNum[t]
                  /\ rs[k].LineText = lines[rs[k].LineNumber]
                  /\ \E sp \in SpansIn(rs[k].LineText) : sp[2] = rs[k].MatchInfo
                  /\ Count(rs, rs[k]) = 1
            /\ \A n \in 1..t_lineNum[t] :
                  Cardinality({k \in 1..Len(rs) : rs[k].LineNumber = n})
                      = Cardinality(SpansIn(lines[n]))
            /\ EntryOf(t).Content = <<>> => rs = <<>>

\* C10 witness: x.ts scanned to its end: two results for line 1 (one per
\* pattern), none for the empty line 2, two for line 3.
C10_Witness ==
    /\ t_pc[<<2, 4>>] = "done"
    /\ t_lineNum[<<2, 4>>] = 3
    /\ [k \in 1..Len(SentBy(<<2, 4>>)) |-> SentBy(<<2, 4>>)[k].LineNumber] = <<1, 1, 3, 3>>
    /\ t_pc[<<3, 2>>] = "done"
    /\ SentBy(<<3, 2>>) = <<>>

\* The text a result's span covers in its line.
SpanText(r) == Slice(r.LineText, r.MatchInfo.StartIndex, r.MatchInfo.EndIndex)

\* C11: compilePatterns returns one compiled pattern per query, in the order
\* of the queries, the i-th original pattern being the i-th query's raw
\* pattern; every result is labelled with the raw pattern of the query whose
\* compiled pattern found the span (the span is a match of that very query),
\* never with another query's string nor with the translated expression.
C11_LabelIsQueryOfSpan ==
    /\ Len(patterns) = Len(Queries)
    /\ Len(originalPatterns) = Len(Queries)
    /\ \A i \in 1..Len(Queries) :
          /\ originalPatterns[i] = Queries[i].Pattern
          /\ patterns[i] = ParseRegexp(TranslateWildcards(Queries[i].Pattern))
    /\ \A k \in 1..Len(sent) :
          /\ \E i \in 1..Len(Queries) :
                /\ sent[k].MatchInfo.Pattern = Queries[i].Pattern
                /\ GlobMatch(Queries[i].Pattern, SpanText(sent[k]))
                /\ <<sent[k].MatchInfo.StartIndex, sent[k].MatchInfo.EndIndex>> \in
                      {FindAllStringSubmatchIndex(patterns[i], sent[k].LineText)[j] :
                          j \in 1..Len(FindAllStringSubmatchIndex(patterns[i], sent[k].LineText))}
          /\ \A i \in 1..Len(Queries) :
                TranslateWildcards(Queries[i].Pattern) # Queries[i].Pattern
                    => sent[k].MatchInfo.Pattern # TranslateWildcards(Queries[i].Pattern)

\* C11 witness: a line of x.ts has given a result labelled "ab" and one
\* labelled "x?", each covering a match of its own query.
C11_Witness ==
    \E j, k \in 1..Len(sent) :
        /\ sent[j].LineText = sent[k].LineText
        /\ sent[j].MatchInfo.Pattern = <<"a", "b">> /\ SpanText(sent[j]) = <<"a", "b">>
        /\ sent[k].MatchInfo.Pattern = <<"x", "?">> /\ SpanText(sent[k]) = <<"x", "c">>

RECURSIVE Flatten(_)
\* The concatenation of a sequence of sequences.
Flatten(ss) == IF ss = <<>> THEN <<>> ELSE Head(ss) \o Flatten(Tail(ss))

\* The results the queries have in one line of the file of task t, computed
\* from the queries file alone.
ExpectedOfLine(t, n, line) ==
    Flatten([i \in 1..Len(Queries) |->
        LET ms == findMatchPositions(line, compilePatterns(Queries).patterns[i],
                                     Queries[i].Pattern)
        IN  [k \in 1..Len(ms) |->
                [FilePath   |-> EntryOf(t).Path,
                 LineNumber |-> n,
                 LineText   |-> line,
                 Repository |-> Repositories[t[1]].Name,
                 MatchInfo  |-> ms[k]]]])

\* Whether the entry of t is a file to scan, from the file set and the
\* queries alone.
Eligible(t) ==
    /\ Repositories[t[1]].IsDir
    /\ ~EntryOf(t).Err
    /\ ~EntryOf(t).IsDir
    /\ \E i \in 1..Len(Queries) : \E j \in 1..Len(Queries[i].Extensions) :
          Ext(EntryOf(t).Path) = Queries[i].Extensions[j]

ExpectedOfFile(t) ==
    IF ~Eligible(t) THEN <<>>
    ELSE Flatten([n \in 1..Len(ReadableLines(t)) |-> ExpectedOfLine(t, n, ReadableLines(t)[n])])

\* The tree entries of all the repositories, in the order of the walks.
TaskSeq == Flatten([r \in RepoIds |-> [e \in 1..Len(Tree(r)) |-> <<r, e>>]])

\* The results of a run in the order a sequential scan would give them.
ExpectedResults == Flatten([k \in 1..Len(TaskSeq) |-> ExpectedOfFile(TaskSeq[k])])

\* C12: the multiset of the collected results of a complete run is fixed by
\* the file set and the queries: whatever the interleaving, when the drain
\* loop has ended the collection is, as a multiset, the one multiset computed
\* from the files and the queries (so any two complete runs agree).
C12_MultisetFixedByFilesAndQueries ==
    c_pc = "done" =>
        /\ BagOfSeq(results) = BagOfSeq(ExpectedResults)
        /\ Len(results) = Len(ExpectedResults)

\* C12 witness: a complete run whose collection is in another order than
\* the sequential one: it starts with a result of y.go of the second
\* repository and ends with one of x.ts of the first.
C12_Witness ==
    /\ c_pc = "done"
    /\ results # ExpectedResults
    /\ results[1].FilePath = Join(R2, <<"y", ".", "g", "o">>)
    /\ results[Len(results)].FilePath = Join(R1, <<"x", ".", "t", "s">>)

\* The files to scan that cannot be opened.
Unopenable == {t \in TaskIds : Eligible(t) /\ ~EntryOf(t).Openable}

\* The results of a run over the file set without the files that cannot be
\* opened.
ExpectedWithoutUnopenable ==
    Flatten([k \in 1..Len(TaskSeq) |->
        IF TaskSeq[k] \in Unopenable THEN <<>> ELSE ExpectedOfFile(TaskSeq[k])])

\* C13: a file that cannot be opened is skipped and nothing is fatal: its
\* task sends no result and holds no handle, it ends and its end decrements
\* the join counter like any other, the run completes, and the collection
\* is what the other files give.
C13_UnopenableFileSkipped ==
    /\ [](/\ ~panicked
          /\ \A t \in Unopenable :
                /\ SentBy(t) = <<>>
                /\ t_pending[t] = <<>>
                /\ t_lineNum[t] = 0
                /\ ~t_handle[t]
                /\ t_pc[t] \in {"none", "open", "exit", "done"})
    /\ [](c_pc = "done" => BagOfSeq(results) = BagOfSeq(ExpectedWithoutUnopenable))
    /\ [][\A t \in Unopenable : (t_pc[t] # "done" /\ t_pc'[t] = "done") => wg' = wg - 1]_vars
    /\ <>(Terminated /\ wg = 0 /\ \A t \in Unopenable : t_pc[t] = "done")

\* C13 witness: the run is over; the task of n.ts, which does not open, has
\* ended without a result and the six results of the other files are in.
C13_Witness ==
    /\ Terminated
    /\ Unopenable = {<<3, 4>>}
    /\ t_pc[<<3, 4>>] = "done"
    /\ SentBy(<<3, 4>>) = <<>>
    /\ Len(results) = 6

\* The number of the first line of t's file that is too long to buffer, 0
\* when it has none.
FirstLong(t) ==
    LET ls   == SplitLines(EntryOf(t).Content)
        long == {k \in 1..Len(ls) : Len(ls[k]) >= MaxScanTokenSize}
    IN  IF long = {} THEN 0 ELSE CHOOSE k \in long : \A j \in long : k <= j

\* The files to scan that open and hold a line too long to buffer.
Oversized == {t \in TaskIds : Eligible(t) /\ EntryOf(t).Openable /\ FirstLong(t) > 0}

\* The results of the lines of t's file before the oversized one.
ExpectedBeforeLong(t) ==
    Flatten([n \in 1..(FirstLong(t) - 1) |->
                ExpectedOfLine(t, n, DropCR(SplitLines(EntryOf(t).Content)[n]))])

\* The collected results of the file of task t.
CollectedOf(t) == SelectSeq(results, LAMBDA r : r.FilePath = EntryOf(t).Path)

\* C14: a line too long for the buffer ends the scan of its file only: no
\* result bears the number of that line or of a later one, the results of
\* the earlier lines are sent and collected, the task closes its file, ends
\* and is counted, and every other file gives all its results.
C14_OversizedLineEndsFileOnly ==
    /\ [](/\ ~panicked
          /\ \A t \in Oversized :
                /\ t_lineNum[t] < FirstLong(t)
                /\ \A k \in 1..Len(SentBy(t)) : SentBy(t)[k].LineNumber < FirstLong(t)
                /\ \A k \in 1..Len(t_pending[t]) : t_pending[t][k].LineNumber < FirstLong(t)
                /\ t_pc[t] \in {"exit", "done"} =>
                      /\ ~t_handle[t]
                      /\ t_lineNum[t] = FirstLong(t) - 1
                      /\ BagOfSeq(SentBy(t)) = BagOfSeq(ExpectedBeforeLong(t)))
    /\ [](c_pc = "done" =>
             /\ \A t \in Oversized : BagOfSeq(CollectedOf(t)) = BagOfSeq(ExpectedBeforeLong(t))
             /\ \A t \in TaskIds \ Oversized :
                   BagOfSeq(CollectedOf(t)) = BagOfSeq(ExpectedOfFile(t)))
    /\ [][\A t \in Oversized : (t_pc[t] # "done" /\ t_pc'[t] = "done") => wg' = wg - 1]_vars
    /\ <>(Terminated /\ wg = 0 /\ \A t \in Oversized : t_pc[t] = "done")

\* C14 witness: the run is over; y.go, whose second line is too long, has
\* its two results of line 1 collected, although its third line holds a
\* match, and x.ts has its four.
C14_Witness ==
    /\ Terminated
    /\ Oversized = {<<3, 5>>}
    /\ FirstLong(<<3, 5>>) = 2
    /\ Len(SplitLines(EntryOf(<<3, 5>>).Content)) = 3
    /\ Len(CollectedOf(<<3, 5>>)) = 2
    /\ Len(CollectedOf(<<2, 4>>)) = 4

\* C15: the channel never buffers more than its capacity: a send on the full
\* channel cannot proceed, the consumer can receive, and nothing is dropped,
\* overwritten or reordered: what was collected followed by what is buffered
\* is, in order, what was sent.
C15_ChannelWithinCapacity ==
    /\ Len(resultChan) <= ChanCap
    /\ results \o resultChan = sent
    /\ Len(resultChan) = ChanCap =>
          /\ \A t \in TaskIds : ~ENABLED TaskSend(t)
          /\ ENABLED Recv
    /\ \A t \in TaskIds : t_pc[t] = "send" => t_pending[t] # <<>>

\* C15 witness: the channel is full after the consumer has taken results,
\* and a producer is waiting to send.
C15_Witness ==
    /\ Len(resultChan) = ChanCap
    /\ results # <<>>
    /\ \E t \in TaskIds : t_pc[t] = "send"

\* C16: a task opens a handle at most once, on its own file, and has closed
\* it when it ends, whether the scan reached the end of the file or stopped
\* at an oversized line; after the run no handle is open; every file to scan
\* gets one task only, so no two tasks hold a handle on one file.
C16_HandleClosedOnEveryExit ==
    /\ [](/\ \A t \in TaskIds :
                /\ t_handle[t] => (t_pc[t] \in {"scan", "send", "close"}
                                   /\ Eligible(t) /\ EntryOf(t).Openable)
                /\ t_pc[t] \in {"none", "open", "exit", "done"} => ~t_handle[t]
          /\ \A t, u \in TaskIds :
                (t # u /\ t_handle[t] /\ t_handle[u]) => EntryOf(t).Path # EntryOf(u).Path
          /\ \A t, u \in TaskIds :
                (t # u /\ t_pc[t] # "none" /\ t_pc[u] # "none")
                    => EntryOf(t).Path # EntryOf(u).Path
          /\ Terminated => \A t \in TaskIds : ~t_handle[t])
    /\ [][\A t \in TaskIds :
             /\ (~t_handle[t] /\ t_handle'[t]) => (t_pc[t] = "open" /\ t_pc'[t] = "scan")
             /\ (t_pc[t] # "open" /\ t_pc'[t] = "open") => t_pc[t] = "none"
             /\ t_pc[t] # "none" => t_pc'[t] # "none"]_vars

\* C16 witness: the run is over and no handle is open; x.ts was read to its
\* end and y.go up to its oversized line, their sends interleaved.
C16_Witness ==
    /\ Terminated
    /\ \A t \in TaskIds : ~t_handle[t]
    /\ t_lineNum[<<2, 4>>] = 3
    /\ t_lineNum[<<3, 5>>] = 1
    /\ results[1].FilePath = EntryOf(<<2, 4>>).Path
    /\ results[2].FilePath = EntryOf(<<3, 5>>).Path
    /\ results[3].FilePath = EntryOf(<<2, 4>>).Path

\* C17: the walker never waits for a scan task: while a repository is being
\* walked its next step (visit the next entry, start a task, return) can
\* always be taken, whatever the tasks do, also with the channel full; and
\* the walker never sends: whenever the channel or the record of sends
\* changes, the walker has not moved.
C17_WalkerNeverWaitsForTasks ==
    /\ [](\A r \in RepoIds :
             walk[r] = "walking" => ENABLED (WalkFn(r) \/ WalkGo(r) \/ WalkReturn(r)))
    /\ [][(resultChan' # resultChan \/ sent' # sent) => UNCHANGED walkerVars]_vars

\* C17 witness: both walks have returned while the tasks of x.ts and y.go
\* are blocked sending on the full channel.
C17_Witness ==
    /\ \A r \in RepoIds : walk[r] \in {"skipped", "returned"}
    /\ Len(resultChan) = ChanCap
    /\ t_pc[<<2, 4>>] = "send"
    /\ t_pc[<<3, 5>>] = "send"
    /\ w_pc = "range"

\* C18: the extension set is the union of the extension lists of all the
\* queries, and a scanned file is tried against the pattern of every query,
\* not only of those that list its extension: for every line read and every
\* query, the results labelled with the query's pattern are as many as the
\* pattern's matches in the line; "ab", listed for .ts, has a result in
\* y.go, and "x?", listed for .go, has one in x.ts.
C18_EveryPatternOnEveryFile ==
    /\ extensions = UNION {{Queries[i].Extensions[j] : j \in 1..Len(Queries[i].Extensions)} :
                           i \in 1..Len(Queries)}
    /\ \A t \in TaskIds :
          LET rs == SentBy(t) \o t_pending[t]
          IN  \A n \in 1..t_lineNum[t] : \A i \in 1..Len(Queries) :
                 Cardinality({k \in 1..Len(rs) :
                                 /\ rs[k].LineNumber = n
                                 /\ rs[k].MatchInfo.Pattern = Queries[i].Pattern})
                     = Len(findMatchPositions(ReadableLines(t)[n],
                                              compilePatterns(Queries).patterns[i],
                                              Queries[i].Pattern))
    /\ t_pc[<<3, 5>>] = "done" =>
          \E k \in 1..Len(sent) :
              /\ sent[k].FilePath = Join(R2, <<"y", ".", "g", "o">>)
              /\ sent[k].MatchInfo.Pattern = <<"a", "b">>
    /\ t_pc[<<2, 4>>] = "done" =>
          \E k \in 1..Len(sent) :
              /\ sent[k].FilePath = Join(R1, <<"x", ".", "t", "s">>)
              /\ sent[k].MatchInfo.Pattern = <<"x", "?">>

\* C18 witness: collected, a result of "ab" in y.go, whose extension only
\* the query of "x?" lists, and a result of "x?" in x.ts.
C18_Witness ==
    /\ \A i \in 1..Len(Queries) : Len(Queries[i].Extensions) = 1
    /\ Queries[1].Extensions[1] # Queries[2].Extensions[1]
    /\ \E k \in 1..Len(results) :
          /\ Ext(results[k].FilePath) = Queries[2].Extensions[1]
          /\ results[k].MatchInfo.Pattern = Queries[1].Pattern
    /\ \E k \in 1..Len(results) :
          /\ Ext(results[k].FilePath) = Queries[1].Extensions[1]
          /\ results[k].MatchInfo.Pattern = Queries[2].Pattern

\* The index of the query whose pattern labels the result.
PatternIndexOf(r) == CHOOSE i \in 1..Len(Queries) : Queries[i].Pattern = r.MatchInfo.Pattern

\* Whether scanFile emits a before b: the smaller line number, on one line
\* the smaller pattern index, for one pattern the smaller start index.
EmittedBefore(a, b) ==
    \/ a.LineNumber < b.LineNumber
    \/ /\ a.LineNumber = b.LineNumber
       /\ \/ PatternIndexOf(a) < PatternIndexOf(b)
          \/ /\ PatternIndexOf(a) = PatternIndexOf(b)
             /\ a.MatchInfo.StartIndex < b.MatchInfo.StartIndex

\* C19: the results of one file keep their emission order, in the collection
\* and in the channel after it: of two results of the same file the earlier
\* one has the smaller line number, on the same line the smaller pattern
\* index, for the same pattern the smaller start index.
C19_PerFileOrderKept ==
    LET all == results \o resultChan
    IN  \A j, k \in 1..Len(all) :
            (j < k /\ all[j].FilePath = all[k].FilePath) => EmittedBefore(all[j], all[k])

\* C19 witness: a complete collection that alternates between x.ts and y.go,
\* the two results of line 1 of y.go in pattern order ("ab" at 1 before "x?"
\* at 0) and not in start order.
C19_Witness ==
    /\ c_pc = "done"
    /\ results[1].FilePath = Join(R2, <<"y", ".", "g", "o">>)
    /\ results[1].MatchInfo = [Pattern |-> <<"a", "b">>, StartIndex |-> 1, EndIndex |-> 3]
    /\ results[2].FilePath = Join(R1, <<"x", ".", "t", "s">>)
    /\ results[3].FilePath = Join(R2, <<"y", ".", "g", "o">>)
    /\ results[3].MatchInfo = [Pattern |-> <<"x", "?">>, StartIndex |-> 0, EndIndex |-> 2]
    /\ results[6].LineNumber = 3

\* The scan tasks spawned and not yet finished.
Running == {t \in TaskIds : t_pc[t] \notin {"none", "done"}}

\* The walks that have done wg.Add(1) for a task they have yet to spawn.
AboutToSpawn == {r \in RepoIds : at[r] = "go"}

\* C20 as stated: in every state the counter is the number of tasks spawned
\* and not finished, it is not negative, and the wait is passed only with no
\* task to spawn or running.
C20_CounterIsRunningTasks ==
    /\ wg = Cardinality(Running)
    /\ wg >= 0
    /\ w_pc # "range" => (Running = {} /\ AboutToSpawn = {})

\* C20 amended: the counter is the number of tasks spawned and not finished,
\* plus one while the walker stands between its wg.Add(1) and the go
\* statement of the task; it is never negative; it grows only in a step of a
\* walk in progress, so before the wait starts; the wait is passed only at
\* zero, every walk over, no task to spawn or running.
C20_CounterIsRunningPlusAboutToSpawn ==
    /\ [](/\ wg = Cardinality(Running) + Cardinality(AboutToSpawn)
          /\ Cardinality(AboutToSpawn) <= 1
          /\ wg >= 0
          /\ \A r \in AboutToSpawn : walk[r] = "walking" /\ w_pc = "range"
          /\ w_pc # "range" =>
                /\ wg = 0
                /\ Running = {}
                /\ AboutToSpawn = {}
                /\ \A r \in RepoIds : walk[r] \in {"skipped", "returned"}
                /\ \A t \in TaskIds : Eligible(t) => t_pc[t] = "done")
    /\ [][/\ wg' > wg =>
                 (/\ wg' = wg + 1
                  /\ w_pc = "range"
                  /\ \E r \in RepoIds :
                        walk[r] = "walking" /\ at[r] = "visit" /\ at'[r] = "go")
          /\ \A t \in TaskIds : (t_pc[t] = "none" /\ t_pc'[t] # "none") =>
                 (t[1] \in AboutToSpawn /\ wg' = wg /\ wg >= 1)
          /\ wg' < wg => (wg' = wg - 1 /\ \E t \in Running : t_pc'[t] = "done")]_vars

\* C20 witness: the walker of the second repository has incremented the
\* counter for a task it has not spawned yet while the task of x.ts runs:
\* the counter is 2 with one task spawned and unfinished.
C20_Witness ==
    /\ at[3] = "go"
    /\ Running = {<<2, 4>>}
    /\ wg = 2

====
